---- MODULE Spec2Model ----
(***************************************************************************)
(* Verification model of dark-seer's request admission, transport,         *)
(* normalisation and staging.                                              *)
(*                                                                         *)
(*   SpecLimiter  darkseer.http.AsyncRateLimiter shared by NumTasks        *)
(*                asyncio tasks (token bucket with a wake-up queue)        *)
(*   SpecTest     tests/test_http_rate_limiter.py driving one limiter      *)
(*   SpecClient   darkseer.util.RateLimitedHTTPClient and its subclass     *)
(*                informants.stratz.client.Stratz: construction, get/post, *)
(*                wait_for_token, request, quota headers and retries       *)
(*   SpecGather   scripts/_data.py: the chunks of one command gathered on  *)
(*                one Stratz client, one get/post call each                *)
(*   SpecMatches  Stratz.matches normalising the matches of one response   *)
(*   SpecDraft    the draft entries of one match, parse._parse_draft_type  *)
(*   SpecEvents   parse.parse_events numbering the events of one match     *)
(*   SpecStaging  scripts/_data.py staging tombstones with util.upsert     *)
(*   SpecReparse  Stratz.reparse through the memoized Stratz.query         *)
(*   SpecMissing  the `missing` command: fetch, reparse, one session       *)
(*   SpecBucket   SpecLimiter with the books of the bucket kept beside it  *)
(*   SpecUpsert   write_matches handing one batch to util.upsert twice     *)
(*   SpecUnique   write_matches deduplicating accounts with unique()       *)
(*   SpecFetch    the three callers of Stratz.matches and their chunking   *)
(*   SpecClassify parse_events typing one csEvents or rune record          *)
(*   SpecFileCache  util.FileCache numbering the files of its entries      *)
(*                                                                         *)
(* Time.  The code reads time.monotonic() and only ever uses differences   *)
(* of two readings, so the clock is kept as those differences: the ticks   *)
(* elapsed since _last_checked, the ticks left on every pending timer and  *)
(* the age of every grant.  One tick is 1/TicksPerSecond seconds.  asyncio *)
(* runs a coroutine without interruption between two awaits, so one action *)
(* is the code between two awaits.  A task whose timer is due or whose     *)
(* future is resolved runs before the clock moves on (Tick is disabled).   *)
(*                                                                         *)
(* Tokens are floats in the code.  They are kept exactly, as integers in   *)
(* units of 1/Unit token, Unit = seconds * TicksPerSecond, so that one     *)
(* tick refills exactly max_tokens units.                                  *)
(***************************************************************************)
EXTENDS Integers, Sequences, FiniteSets, TLC

VARIABLES
    limiter,      \* AsyncRateLimiter: max_tokens, seconds, burst, tokens, last_checked
    in_queue,     \* AsyncRateLimiter._in_queue: its keys (tasks) in insertion order
    fut,          \* state of the future stored at _in_queue[task]
    pc,           \* where each task is: "idle", "waiting" (in wait_for), "acquired"
    timer,        \* ticks left until the timeout of the task's wait_for
    grants,       \* ages (ticks) of the grants younger than one window
    test,         \* the test's locals: pc, r, elapsed (ticks since start)
    client,       \* RateLimitedHTTPClient: cls, tokens, seconds, max_tokens, updated_at, authorization
    call,         \* per task, its get/post call: pc, timer, backoff_, slept, retry_after, error,
                  \* status (of the response returned);
                  \* pc is "idle", "polling", "sleeping", "inflight", "returned" or "raised"
    sent,         \* number of requests handed to httpx (counted up to MaxSent)
    taken,        \* number of times `self.tokens -= 1` ran (counted up to MaxSent)
    admitted,     \* number of returns of wait_for_token at the present instant
    batch,        \* Stratz.matches: resp.json()['data']['matches'], the raw matches
    norm,         \* Stratz.matches: pc, i (position in the loop), matches, error
    pick_bans,    \* parse_match_draft.pick_bans of one match, the raw draft actions
    draft,        \* the draft entries derived so far, one per raw action
    payload,      \* parse_player_events of one match: per player, its raw sub-streams
    ev,           \* parse_events: pc (the next step) and r (the events so far)
    stage,        \* the staging table: rows, and last (the latest statement), twice, n
    cache,        \* FileCache._cache: the keys of the calls whose result is on disk
    run,          \* one command: pc and its locals (incomplete, i, posted, ...)
    store,        \* the match table: the ids of the matches written in full
    provider,     \* the ids of the matches the provider now serves in full
    files,        \* per key of `cache`, the response its file holds
    fcache,       \* FileCache: _cache (key -> file), _latest_n, and who wrote each file
    probe         \* the input and result of one call, or the books kept beside a spec

vars == <<limiter, in_queue, fut, pc, timer, grants, test,
          client, call, sent, taken, admitted, batch, norm, pick_bans, draft,
          payload, ev, stage, cache, run, store, provider, files, fcache, probe>>

matchesVars == <<batch, norm>>

draftVars == <<pick_bans, draft>>

eventsVars == <<payload, ev>>

reparseVars == <<stage, cache, run>>

storeVars == <<store, provider, files, fcache, probe>>

pipelineVars == <<matchesVars, draftVars, eventsVars, reparseVars, storeVars>>

clientVars == <<client, call, sent, taken, admitted>>

limiterVars == <<limiter, in_queue, fut, pc, timer, grants>>

----------------------------------------------------------------------------
(* Bounds *)

NumTasks == 2           \* tasks sharing one limiter
MaxTokens == 2          \* largest `tokens` a limiter is constructed with
MaxSeconds == 2         \* largest `seconds` a limiter is constructed with
MaxTestTokens == 5      \* largest N of AsyncRateLimiter(tokens=N, seconds=N, burst=1)
MaxSent == 3            \* requests and tokens are counted up to this number
MaxBackoff == 2         \* the upstream answers one request with at most this many errors
NumChunks == 3          \* calls gathered on one client by one command
MaxBatch == 2           \* matches in one response
MaxDraft == 2           \* raw draft actions of one match
MaxPlayers == 2         \* players of one match
MaxKills == 1           \* killEvents of one player
MaxCs == 2              \* csEvents of one player
MaxMatchId == 3         \* match ids that are staged or asked to be reparsed
MaxStagings == 4        \* statements run against the staging table
MaxRuns == 2            \* runs of a command, one after the other
MaxPosts == 2           \* requests one run of `missing` posts for one reparse
MaxFailures == 1        \* calls and sessions that raise, over all runs of `missing`
MaxHeroes == 3          \* players of one match in the match_player table
MaxAccounts == 3        \* accounts carried by the matches of one batch
MaxIds == 22            \* match ids one command is asked to fetch
MaxNpcId == 140         \* npc ids of csEvents, of either sign
MaxKeys == 11           \* different cache keys asked of one FileCache directory

TicksPerSecond == 2
None == -1
SaltBase == 10          \* replay salts are SaltBase + the match id
TargetHero == 9         \* the hero a kill event names as its target

Tasks == 1..NumTasks

Min(a, b) == IF a < b THEN a ELSE b

Max(a, b) == IF a > b THEN a ELSE b

CeilDiv(a, b) == (a + b - 1) \div b

Range(s) == {s[i] : i \in 1..Len(s)}

----------------------------------------------------------------------------
(* AsyncRateLimiter *)

\* __init__(tokens, seconds, burst): the bucket starts with `burst` tokens
AsyncRateLimiter(tokens, seconds, burst) ==
    [max_tokens   |-> tokens,
     seconds      |-> seconds,
     burst        |-> burst,
     last_checked |-> None,
     tokens       |-> burst * seconds * TicksPerSecond]

\* units per token; `rate` tokens per second is max_tokens units per tick
Unit(l) == l.seconds * TicksPerSecond

\* timeout=1 / self.rate, in ticks (a timer never fires early)
Timeout(l) == CeilDiv(Unit(l), l.max_tokens)

\* the elapsed time after which _flow saturates whatever the bucket held
ElapsedCap(l) == CeilDiv(Min(l.burst, l.max_tokens) * Unit(l), l.max_tokens)

\* _flow(): add the tokens of the time passed since _last_checked
Flow(l) ==
    LET elapsed    == IF l.last_checked = None THEN 0 ELSE l.last_checked
        cap        == Min(l.burst, l.max_tokens) * Unit(l)
        new_tokens == elapsed * l.max_tokens
    IN  [l EXCEPT !.tokens = IF l.tokens < cap
                             THEN Min(l.tokens + new_tokens, cap)
                             ELSE l.tokens,
                  !.last_checked = 0]

\* has_capacity(): next(f for f in self._in_queue.values() if not f.done())
\* gets set_result; a cancelled future and one with a result are done
Signal(q, f) ==
    LET pending == {i \in 1..Len(q) : f[q[i]] = "pending"}
    IN  IF pending = {}
        THEN f
        ELSE LET first == CHOOSE i \in pending : \A j \in pending : i <= j
             IN  [f EXCEPT ![q[first]] = "result"]

\* self._in_queue[this_task] = fut: an existing key keeps its place
Put(q, t) == IF t \in Range(q) THEN q ELSE Append(q, t)

\* self._in_queue.pop(this_task, None)
Pop(q, t) == SelectSeq(q, LAMBDA u : u # t)

\* a pass of acquire() that returns without `self.tokens -= 1`
AcquireWithoutTaking(t, f) ==
    LET l == Flow(limiter)
    IN  IF l.tokens < Unit(l)
        THEN /\ limiter' = l
             /\ in_queue' = Put(in_queue, t)
             /\ fut' = [f EXCEPT ![t] = "pending"]
             /\ timer' = [timer EXCEPT ![t] = Timeout(l)]
             /\ pc' = [pc EXCEPT ![t] = "waiting"]
             /\ UNCHANGED grants
        ELSE /\ limiter' = l
             /\ in_queue' = Pop(in_queue, t)
             /\ fut' = [Signal(in_queue, f) EXCEPT ![t] = "none"]
             /\ timer' = [timer EXCEPT ![t] = 0]
             /\ pc' = [pc EXCEPT ![t] = "acquired"]
             /\ grants' = Append(grants, 0)

\* one pass of acquire() from `while not self.has_capacity()` to the next
\* await or to the return; f is the futures as the task left them
AcquireLoop(t, f) ==
    LET l == Flow(limiter)
    IN  IF l.tokens < Unit(l)
        THEN /\ limiter' = l
             /\ in_queue' = Put(in_queue, t)
             /\ fut' = [f EXCEPT ![t] = "pending"]
             /\ timer' = [timer EXCEPT ![t] = Timeout(l)]
             /\ pc' = [pc EXCEPT ![t] = "waiting"]
             /\ UNCHANGED grants
        ELSE /\ limiter' = [l EXCEPT !.tokens = @ - Unit(l)]
             /\ in_queue' = Pop(in_queue, t)
             /\ fut' = [Signal(in_queue, f) EXCEPT ![t] = "none"]
             /\ timer' = [timer EXCEPT ![t] = 0]
             /\ pc' = [pc EXCEPT ![t] = "acquired"]
             /\ grants' = Append(grants, 0)

\* the task can run: its future was resolved or its timeout is due
Runnable(t) ==
    /\ pc[t] = "waiting"
    /\ (fut[t] = "result" \/ timer[t] = 0)

\* a task calls acquire() (async with limiter)
Acquire(t) ==
    /\ pc[t] = "idle"
    /\ AcquireLoop(t, fut)

\* wait_for returns or times out; finally: fut.cancel(); the loop goes round
Resume(t) ==
    /\ Runnable(t)
    /\ AcquireLoop(t, [fut EXCEPT ![t] = IF @ = "pending" THEN "cancelled" ELSE @])

\* __aexit__: the caller leaves the limiter and goes on
Exit(t) ==
    /\ pc[t] = "acquired"
    /\ pc' = [pc EXCEPT ![t] = "idle"]
    /\ UNCHANGED <<limiter, in_queue, fut, timer, grants>>

\* the grants that are still inside the window after one more tick
Aged(g, window) ==
    SelectSeq([i \in 1..Len(g) |-> g[i] + 1], LAMBDA a : a < window)

\* the sliding window of `seconds`, in ticks
Window(l) == l.seconds * TicksPerSecond

\* time.monotonic() advances by one tick
ClockTick ==
    /\ \A t \in Tasks : ~Runnable(t)
    /\ limiter' = [limiter EXCEPT !.last_checked =
                      IF @ = None THEN None ELSE Min(@ + 1, ElapsedCap(limiter))]
    /\ timer' = [t \in Tasks |-> IF timer[t] > 0 THEN timer[t] - 1 ELSE 0]
    /\ grants' = Aged(grants, Window(limiter))
    /\ UNCHANGED <<in_queue, fut, pc>>

----------------------------------------------------------------------------
(* Parts of the state a specification does not use stay as constructed *)

NoTest == [pc |-> "off", r |-> 0, elapsed |-> 0]

NoCall ==
    [pc |-> "idle", timer |-> 0, backoff_ |-> 0, slept |-> None,
     retry_after |-> None, error |-> "none", status |-> None]

NoClient ==
    [cls |-> "none", tokens |-> 0, seconds |-> 1, max_tokens |-> 1,
     updated_at |-> 0, authorization |-> FALSE]

InitTasks ==
    /\ in_queue = <<>>
    /\ fut = [t \in Tasks |-> "none"]
    /\ pc = [t \in Tasks |-> "idle"]
    /\ timer = [t \in Tasks |-> 0]
    /\ grants = <<>>

LimiterUnused ==
    /\ limiter = AsyncRateLimiter(1, 1, 1)
    /\ InitTasks

TestUnused == test = NoTest

NoNorm == [pc |-> "off", i |-> 1, matches |-> <<>>, error |-> "none"]

MatchesUnused ==
    /\ batch = <<>>
    /\ norm = NoNorm

DraftUnused ==
    /\ pick_bans = <<>>
    /\ draft = <<>>

EventsUnused ==
    /\ payload = <<>>
    /\ ev = [pc |-> "off", r |-> <<>>]

NoStage == [rows |-> {}, last |-> [op |-> "none"], twice |-> FALSE, n |-> 0]

NoRun == [pc |-> "off", incomplete |-> <<>>, i |-> 1, posted |-> <<>>, n |-> 0]

ReparseUnused ==
    /\ stage = NoStage
    /\ cache = {}
    /\ run = NoRun

NoFileCache == [_cache |-> <<>>, _latest_n |-> 0, wrote |-> <<>>]

NoProbe == [pc |-> "off"]

StoreUnused ==
    /\ store = {}
    /\ provider = {}
    /\ files = <<>>
    /\ fcache = NoFileCache
    /\ probe = NoProbe

PipelineUnused ==
    /\ MatchesUnused
    /\ DraftUnused
    /\ EventsUnused
    /\ ReparseUnused
    /\ StoreUnused

ClientUnused ==
    /\ client = NoClient
    /\ call = [t \in Tasks |-> NoCall]
    /\ sent = 0
    /\ taken = 0
    /\ admitted = 0

----------------------------------------------------------------------------
(* SpecLimiter: any limiter the API admits with burst <= tokens *)

Configs ==
    {c \in [tokens : 1..MaxTokens, seconds : 1..MaxSeconds, burst : 1..MaxTokens] :
        c.burst <= c.tokens}

InitLimiter ==
    /\ \E c \in Configs : limiter = AsyncRateLimiter(c.tokens, c.seconds, c.burst)
    /\ InitTasks
    /\ TestUnused
    /\ ClientUnused
    /\ PipelineUnused

LimiterAcquire(t) == Acquire(t) /\ UNCHANGED <<test, clientVars, pipelineVars>>

LimiterResume(t) == Resume(t) /\ UNCHANGED <<test, clientVars, pipelineVars>>

LimiterExit(t) == Exit(t) /\ UNCHANGED <<test, clientVars, pipelineVars>>

Tick == ClockTick /\ UNCHANGED <<test, clientVars, pipelineVars>>

NextLimiter ==
    \/ \E t \in Tasks : LimiterAcquire(t)
    \/ \E t \in Tasks : LimiterResume(t)
    \/ \E t \in Tasks : LimiterExit(t)
    \/ Tick

SpecLimiter == InitLimiter /\ [][NextLimiter]_vars

\* asyncio runs every task that is ready, and the clock keeps advancing
FairLimiter ==
    /\ SpecLimiter
    /\ WF_vars(Tick)
    /\ \A t \in Tasks : WF_vars(LimiterResume(t))

----------------------------------------------------------------------------
(* SpecBucket: the tasks of SpecLimiter with the books of the bucket kept  *)
(* beside it.  probe.credit is the initial tokens, plus `rate` for the     *)
(* time since the first acquire, minus one token for every grant so far,   *)
(* in the units of limiter.tokens.  Credit that no grant can use any more  *)
(* is dropped at CreditCap, so the credit kept is never more than the      *)
(* real one.                                                               *)

bucketFrame ==
    <<test, clientVars, matchesVars, draftVars, eventsVars, reparseVars,
      store, provider, files, fcache>>

\* a full bucket and the refill of the longest time _flow can count
CreditCap(l) == Min(l.burst, l.max_tokens) * Unit(l) + ElapsedCap(l) * l.max_tokens

\* the books after a pass of acquire() by task t
Booked(t) ==
    IF pc'[t] = "acquired"
    THEN [probe EXCEPT !.credit = @ - Unit(limiter), !.granted = TRUE]
    ELSE [probe EXCEPT !.granted = FALSE]

BucketAcquire(t) == Acquire(t) /\ probe' = Booked(t) /\ UNCHANGED bucketFrame

BucketResume(t) == Resume(t) /\ probe' = Booked(t) /\ UNCHANGED bucketFrame

BucketExit(t) ==
    /\ Exit(t)
    /\ probe' = [probe EXCEPT !.granted = FALSE]
    /\ UNCHANGED bucketFrame

\* the clock of the claim starts with the first acquire
BucketTick ==
    /\ ClockTick
    /\ probe' = [probe EXCEPT
                    !.granted = FALSE,
                    !.credit = IF limiter.last_checked = None
                               THEN @
                               ELSE Min(@ + limiter.max_tokens, CreditCap(limiter))]
    /\ UNCHANGED bucketFrame

InitBucket ==
    /\ \E c \in Configs : limiter = AsyncRateLimiter(c.tokens, c.seconds, c.burst)
    /\ InitTasks
    /\ TestUnused
    /\ ClientUnused
    /\ MatchesUnused
    /\ DraftUnused
    /\ EventsUnused
    /\ ReparseUnused
    /\ store = {}
    /\ provider = {}
    /\ files = <<>>
    /\ fcache = NoFileCache
    /\ probe = [pc |-> "bucket", credit |-> limiter.tokens, granted |-> FALSE]

NextBucket ==
    \/ \E t \in Tasks : BucketAcquire(t)
    \/ \E t \in Tasks : BucketResume(t)
    \/ \E t \in Tasks : BucketExit(t)
    \/ BucketTick

SpecBucket == InitBucket /\ [][NextBucket]_vars

----------------------------------------------------------------------------
(* SpecTest: the test "limiter makes max_tokens requests in seconds".      *)
(* Task 1 runs the loop; nothing else runs, so the clock moves only while  *)
(* the task waits inside acquire().                                        *)

InitTest ==
    /\ \E n \in 1..MaxTestTokens : limiter = AsyncRateLimiter(n, n, 1)
    /\ InitTasks
    /\ test = [pc |-> "acquire", r |-> 0, elapsed |-> 0]
    /\ ClientUnused
    /\ PipelineUnused

\* async with limiter: the first pass of acquire()
TestAcquire ==
    /\ test.pc = "acquire"
    /\ Acquire(1)
    /\ UNCHANGED <<test, clientVars, pipelineVars>>

\* acquire() comes back from wait_for and goes round its loop
TestResume ==
    /\ test.pc = "acquire"
    /\ Resume(1)
    /\ UNCHANGED <<test, clientVars, pipelineVars>>

\* r += 1, __aexit__, await asyncio.sleep(0)
TestBody ==
    /\ test.pc = "acquire"
    /\ Exit(1)
    /\ test' = [test EXCEPT !.r = @ + 1, !.pc = "sleep"]
    /\ UNCHANGED <<clientVars, pipelineVars>>

\* elapsed >= limiter._seconds + .01: break, else go round
TestCheck ==
    /\ test.pc = "sleep"
    /\ test' = [test EXCEPT !.pc =
                   IF test.elapsed * 100 >= (limiter.seconds * 100 + 1) * TicksPerSecond
                   THEN "done" ELSE "acquire"]
    /\ UNCHANGED <<limiterVars, clientVars, pipelineVars>>

\* the clock advances while the task is suspended in wait_for
TestTick ==
    /\ test.pc = "acquire"
    /\ pc[1] = "waiting"
    /\ ClockTick
    /\ test' = [test EXCEPT !.elapsed = @ + 1]
    /\ UNCHANGED <<clientVars, pipelineVars>>

NextTest ==
    \/ TestAcquire
    \/ TestResume
    \/ TestBody
    \/ TestCheck
    \/ TestTick

SpecTest == InitTest /\ [][NextTest]_vars

----------------------------------------------------------------------------
(* RateLimitedHTTPClient and Stratz *)

StratzTokens == 300         \* Stratz.__init__: tokens=300
StratzSeconds == 3600       \* Stratz.__init__: seconds=3600
ElevatedTokens == 500       \* Stratz.__init__: self.tokens = 500
BurstRequests == 150        \* Stratz.burst: 150 / 60
BurstDivisor == 60
Margin == 10                \* request: int(header) - 10
PollPerSecond == 10         \* wait_for_token: asyncio.sleep(0.1)
OK == 200
TOO_MANY_REQUESTS == 429    \* httpx.codes.TOO_MANY_REQUESTS
SERVER_ERROR == 500

\* RateLimitedHTTPClient.__init__(tokens, seconds): max_tokens defaults to tokens
RateLimitedHTTPClient(cls, tokens, seconds) ==
    [cls           |-> cls,
     tokens        |-> tokens * seconds * TicksPerSecond,
     seconds       |-> seconds,
     max_tokens    |-> tokens,
     updated_at    |-> 0,
     authorization |-> FALSE]

\* Stratz.__init__(bearer_token)
Stratz(bearer_token) ==
    LET self == RateLimitedHTTPClient("Stratz", StratzTokens, StratzSeconds)
    IN  IF bearer_token
        THEN [self EXCEPT !.tokens = ElevatedTokens * Unit(self),
                          !.authorization = TRUE]
        ELSE self

\* Stratz.burst, 150 / 60, taken as seconds by asyncio.sleep: in ticks
Burst == (BurstRequests * TicksPerSecond) \div BurstDivisor

\* asyncio.sleep(0.1) ends at the first tick after a tenth of a second
PollTicks == CeilDiv(TicksPerSecond, PollPerSecond)

\* one refill interval 1 / rate, in ticks
RefillTicks(c) == CeilDiv(Unit(c), c.max_tokens)

\* add_new_tokens()
AddNewTokens(c) ==
    LET new_tokens == c.updated_at * c.max_tokens
    IN  IF c.tokens + new_tokens >= Unit(c)
        THEN [c EXCEPT !.tokens = Min(c.tokens + new_tokens, c.max_tokens * Unit(c)),
                       !.updated_at = 0]
        ELSE c

\* RateLimitedHTTPClient.request after the response: remaining_tokens =
\* int(r.headers['x-ratelimit-remaining-hour']) - 10, then the adjustment
Reconcile(c, header) ==
    LET remaining_tokens == (header - Margin) * Unit(c)
    IN  IF remaining_tokens < c.tokens
        THEN [c EXCEPT !.tokens = Max(0, remaining_tokens)]
        ELSE c

\* asyncio.sleep(override or self.burst): 0.0 and None are both falsy
SleepTicks(override) == IF override = None \/ override = 0 THEN Burst ELSE override

\* the counters of sent requests and taken tokens stop at MaxSent
Count(n) == Min(n + 1, MaxSent)

\* wait_for_token has returned: super().request hands the request to httpx
SendRequest(t, c) ==
    /\ call' = [call EXCEPT ![t] = [NoCall EXCEPT !.pc = "inflight",
                                                   !.backoff_ = c.backoff_]]
    /\ sent' = Count(sent)
    /\ admitted' = admitted + 1

\* RateLimitedHTTPClient.wait_for_token from its while to the next await,
\* or to the return and on into request
BaseWaitForToken(t, c) ==
    IF client.tokens < Unit(client)
    THEN /\ client' = AddNewTokens(client)
         /\ call' = [call EXCEPT ![t] = [c EXCEPT !.pc = "polling", !.timer = PollTicks]]
         /\ UNCHANGED <<sent, taken, admitted>>
    ELSE /\ client' = [client EXCEPT !.tokens = @ - Unit(client)]
         /\ taken' = Count(taken)
         /\ SendRequest(t, c)

\* Stratz.wait_for_token(override): await asyncio.sleep(override or self.burst)
StratzWaitForToken(t, c, override) ==
    call' = [call EXCEPT ![t] = [c EXCEPT !.pc = "sleeping",
                                          !.timer = SleepTicks(override),
                                          !.slept = SleepTicks(override)]]

\* async with Stratz(bearer_token=token) as api: with or without a credential
ConstructStratz ==
    /\ client.cls = "none"
    /\ \E bearer_token \in BOOLEAN : client' = Stratz(bearer_token)
    /\ UNCHANGED <<call, sent, taken, admitted>>

\* the base class constructed on its own, with small arguments
ConstructBase ==
    /\ client.cls = "none"
    /\ \E n \in 1..MaxTokens, s \in 1..MaxSeconds :
           client' = RateLimitedHTTPClient("RateLimitedHTTPClient", n, s)
    /\ UNCHANGED <<call, sent, taken, admitted>>

\* get / post: await self.wait_for_token(), then self.request(...)
Post(t) ==
    /\ client.cls # "none"
    /\ call[t].pc \in {"idle", "returned"}
    /\ IF client.cls = "Stratz"
       THEN /\ StratzWaitForToken(t, NoCall, None)
            /\ UNCHANGED <<client, sent, taken, admitted>>
       ELSE BaseWaitForToken(t, NoCall)

\* the base wait_for_token comes back from asyncio.sleep(0.1)
Poll(t) ==
    /\ call[t].pc = "polling"
    /\ call[t].timer = 0
    /\ BaseWaitForToken(t, call[t])

\* Stratz.wait_for_token comes back from its sleep; request is sent
Wake(t) ==
    /\ call[t].pc = "sleeping"
    /\ call[t].timer = 0
    /\ SendRequest(t, call[t])
    /\ UNCHANGED <<client, taken>>

\* the answers the upstream can give
HeaderValues == {5, 260, 499}

RetryAfterSeconds == {0, 3}

Responses ==
    {r \in [status      : {OK, TOO_MANY_REQUESTS, SERVER_ERROR},
            remaining   : HeaderValues \cup {None},
            retry_after : RetryAfterSeconds \cup {None}] :
        r.status # TOO_MANY_REQUESTS => r.retry_after = None}

\* a retry wait that ignores the number of errors so far
ConstantBackoff(backoff_) == Burst

\* override = self.burst * backoff_
LinearBackoff(backoff_) == Burst * backoff_

\* Stratz.request after super().request returned r: raise_for_status, then
\* the retry or the header taken over
StratzRequest(t, c, r) ==
    IF r.status = OK
    THEN /\ client' = [c EXCEPT !.tokens = r.remaining * Unit(c)]
         /\ call' = [call EXCEPT ![t] = [NoCall EXCEPT !.pc = "returned",
                                                        !.status = r.status]]
    ELSE LET backoff_ == call[t].backoff_ + 1
             next     == [call[t] EXCEPT !.backoff_ = backoff_,
                                         !.retry_after = r.retry_after]
         IN  /\ client' = c
             /\ IF r.status = TOO_MANY_REQUESTS
                THEN IF r.retry_after = None
                     THEN call' = [call EXCEPT ![t] =
                                      [NoCall EXCEPT !.pc = "raised",
                                                     !.error = "KeyError: retry-after"]]
                     ELSE StratzWaitForToken(t, next, r.retry_after * TicksPerSecond)
                ELSE StratzWaitForToken(t, next, LinearBackoff(backoff_))

\* the response of a request in flight arrives: the rest of request()
Respond(t, r) ==
    /\ call[t].pc = "inflight"
    /\ r.status # OK => call[t].backoff_ < MaxBackoff
    /\ UNCHANGED <<sent, taken, admitted>>
    /\ IF r.remaining = None
       THEN \* r.headers['x-ratelimit-remaining-hour'] raises KeyError
            /\ call' = [call EXCEPT ![t] =
                           [NoCall EXCEPT !.pc = "raised",
                                          !.error = "KeyError: x-ratelimit-remaining-hour"]]
            /\ UNCHANGED client
       ELSE LET c == Reconcile(client, r.remaining)
            IN  IF client.cls = "Stratz"
                THEN StratzRequest(t, c, r)
                ELSE /\ client' = c
                     /\ call' = [call EXCEPT ![t] = [NoCall EXCEPT !.pc = "returned",
                                                                    !.status = r.status]]

\* a sleeping task whose sleep is over runs before the clock moves on
Due(t) ==
    /\ call[t].pc \in {"sleeping", "polling"}
    /\ call[t].timer = 0

\* add_new_tokens is the only reader of updated_at and only the base
\* wait_for_token calls it; past one window the refill is saturated
UpdatedCap(c) == IF c.cls = "Stratz" THEN 0 ELSE Unit(c)

\* the clock is read when something happens: it advances to the next timer
\* that is due, or by one tick when no timer is set
NextDue ==
    LET set == {call[t].timer : t \in {u \in DOMAIN call : call[u].timer > 0}}
    IN  IF set = {} THEN 1 ELSE CHOOSE d \in set : \A e \in set : d <= e

\* time.monotonic() advances
ClientTick ==
    /\ client.cls # "none"
    /\ \A t \in DOMAIN call : ~Due(t)
    /\ client' = [client EXCEPT !.updated_at = Min(@ + NextDue, UpdatedCap(client))]
    /\ call' = [t \in DOMAIN call |->
                  [call[t] EXCEPT !.timer = IF @ > 0 THEN @ - NextDue ELSE 0]]
    /\ admitted' = 0
    /\ UNCHANGED <<sent, taken>>

----------------------------------------------------------------------------
(* SpecClient *)

InitClient ==
    /\ LimiterUnused
    /\ TestUnused
    /\ ClientUnused
    /\ PipelineUnused

ClientConstructStratz == ConstructStratz /\ UNCHANGED <<limiterVars, test, pipelineVars>>

ClientConstructBase == ConstructBase /\ UNCHANGED <<limiterVars, test, pipelineVars>>

ClientPost(t) == Post(t) /\ UNCHANGED <<limiterVars, test, pipelineVars>>

ClientPoll(t) == Poll(t) /\ UNCHANGED <<limiterVars, test, pipelineVars>>

ClientWake(t) == Wake(t) /\ UNCHANGED <<limiterVars, test, pipelineVars>>

ClientRespond(t, r) == Respond(t, r) /\ UNCHANGED <<limiterVars, test, pipelineVars>>

ClientClock == ClientTick /\ UNCHANGED <<limiterVars, test, pipelineVars>>

NextClient ==
    \/ ClientConstructStratz
    \/ ClientConstructBase
    \/ \E t \in Tasks : ClientPost(t)
    \/ \E t \in Tasks : ClientPoll(t)
    \/ \E t \in Tasks : ClientWake(t)
    \/ \E t \in Tasks, r \in Responses : ClientRespond(t, r)
    \/ ClientClock

SpecClient == InitClient /\ [][NextClient]_vars

\* asyncio runs every task whose sleep is over, the clock keeps advancing
\* and the upstream answers every request it was sent
FairClient ==
    /\ SpecClient
    /\ WF_vars(ClientClock)
    /\ \A t \in Tasks : WF_vars(ClientPoll(t))
    /\ \A t \in Tasks : WF_vars(ClientWake(t))
    /\ \A t \in Tasks : WF_vars(\E r \in Responses : ClientRespond(t, r))

----------------------------------------------------------------------------
(* SpecGather: asyncio.gather over api.matches(match_ids=chunk), one call  *)
(* per chunk, on one Stratz client.  gather starts every call before the   *)
(* clock moves on; each call is one post.                                  *)

Chunks == 1..NumChunks

InitGather ==
    /\ LimiterUnused
    /\ TestUnused
    /\ client = NoClient
    /\ call = [t \in Chunks |-> NoCall]
    /\ sent = 0
    /\ taken = 0
    /\ admitted = 0
    /\ PipelineUnused

GatherPost(t) ==
    /\ call[t].pc = "idle"
    /\ Post(t)
    /\ UNCHANGED <<limiterVars, test, pipelineVars>>

GatherWake(t) == Wake(t) /\ UNCHANGED <<limiterVars, test, pipelineVars>>

GatherRespond(t, r) == Respond(t, r) /\ UNCHANGED <<limiterVars, test, pipelineVars>>

GatherClock ==
    /\ \A t \in Chunks : call[t].pc # "idle"
    /\ ClientTick
    /\ UNCHANGED <<limiterVars, test, pipelineVars>>

NextGather ==
    \/ ClientConstructStratz
    \/ \E t \in Chunks : GatherPost(t)
    \/ \E t \in Chunks : GatherWake(t)
    \/ \E t \in Chunks, r \in Responses : GatherRespond(t, r)
    \/ GatherClock

SpecGather == InitGather /\ [][NextGather]_vars

----------------------------------------------------------------------------
(* Stratz.matches: the loop over the matches of one response *)

\* the scalar fields the Matches query asks for under their provider names;
\* m = {k: v for k, v in match.items() if not k.startswith('parse_')}
RawMatchKeys ==
    {"id", "replaySalt", "gameVersionId", "leagueId", "radiantTeamId",
     "direTeamId", "startDateTime", "isStats", "didRadiantWin",
     "durationSeconds", "regionId", "lobbyType", "gameMode"}

\* the keys the try block adds to m before Match(**m)
ParsedKeys == {"tournament", "teams", "draft", "accounts", "players", "hero_movements"}

\* schema.Match: the fields that are not Optional
RequiredFields ==
    {"match_id", "patch_id", "start_datetime", "winning_faction", "is_stats",
     "duration", "region", "lobby_type", "game_mode", "draft", "players",
     "hero_movements"}

\* Match.region_id_to_name: the keys of `regions`
Regions == (0..3) \cup (5..20) \cup {25, 37}

\* Match.lobby_id_to_name
LobbyTypes ==
    [lobby_id \in 0..9 |->
        CASE lobby_id = 0 -> "Normal"
          [] lobby_id = 1 -> "Practice"
          [] lobby_id = 2 -> "Tournament"
          [] lobby_id = 3 -> "Tutorial"
          [] lobby_id = 4 -> "Co-op Bots"
          [] lobby_id = 5 -> "Team Matchmaking"
          [] lobby_id = 6 -> "Solo Matchmaking"
          [] lobby_id = 7 -> "Ranked"
          [] lobby_id = 8 -> "1v1 Mid"
          [] lobby_id = 9 -> "Battle Cup"]

\* Match.game_mode_to_name: the keys of `game_modes`
GameModes == (0..5) \cup {12, 16, 17, 22}

\* lobby_types[lobby_id]: a dict subscript raises KeyError on an absent key
LobbyIdToName(lobby_id) ==
    IF lobby_id \in DOMAIN LobbyTypes THEN LobbyTypes[lobby_id] ELSE "KeyError"

\* parse_draft(match) reads the pick_bans below parse_match_draft; subscripting
\* the null of a missing section raises TypeError
ParseDraft(match) == IF match.parse_match_draft THEN "draft" ELSE "TypeError"

\* Match(**m) for the dict with these keys: pydantic reports missing required
\* fields as ValidationError and lets a validator's KeyError through; the
\* pre-validators only run for the fields that were passed
MatchInit(keys, match) ==
    IF    \/ ("region" \in keys /\ match.regionId \notin Regions)
          \/ ("lobby_type" \in keys /\ LobbyIdToName(match.lobbyType) = "KeyError")
          \/ ("game_mode" \in keys /\ match.gameMode \notin GameModes)
    THEN "KeyError"
    ELSE IF RequiredFields \subseteq keys THEN "Match" ELSE "ValidationError"

\* the body of `for match in resp.json()['data']['matches']` for one match:
\* what is appended to matches, or the exception that leaves the loop
NormalizeMatch(match) ==
    LET keys   == RawMatchKeys
        parsed == ParseDraft(match)
        built  == IF parsed = "TypeError" THEN "TypeError"
                  ELSE MatchInit(keys \cup ParsedKeys, match)
    IN  CASE built = "Match" -> [type |-> "Match", match_id |-> match.id]
          [] built = "KeyError" -> [type |-> "KeyError"]
          [] OTHER ->
               \* except (TypeError, ValidationError):
               \*     IncompleteMatch(match_id=m['match_id'], replay_salt=m['replay_salt'])
               IF {"match_id", "replay_salt"} \subseteq keys
               THEN [type |-> "IncompleteMatch", match_id |-> match.id,
                     replay_salt |-> match.replaySalt]
               ELSE [type |-> "KeyError"]

\* one pass of the loop
MatchesLoop ==
    /\ norm.pc = "loop"
    /\ norm.i <= Len(batch)
    /\ LET m == NormalizeMatch(batch[norm.i])
       IN  norm' = IF m.type = "KeyError"
                   THEN [norm EXCEPT !.pc = "raised", !.error = "KeyError"]
                   ELSE [norm EXCEPT !.i = @ + 1, !.matches = Append(@, m)]
    /\ UNCHANGED batch
    /\ UNCHANGED <<limiterVars, test, clientVars, draftVars, eventsVars, reparseVars, storeVars>>

\* return matches
MatchesReturn ==
    /\ norm.pc = "loop"
    /\ norm.i > Len(batch)
    /\ norm' = [norm EXCEPT !.pc = "returned"]
    /\ UNCHANGED batch
    /\ UNCHANGED <<limiterVars, test, clientVars, draftVars, eventsVars, reparseVars, storeVars>>

----------------------------------------------------------------------------
(* SpecMatches: one call of Stratz.matches on any response of the provider *)

\* the codes a response carries: known to the tables and absent from them
RegionIds == {3, 4}

LobbyTypeIds == {7, 99}

GameModeIds == {2, 99}

\* the match at position i of a response
RawMatches(i) ==
    [id : {i}, replaySalt : {SaltBase + i}, regionId : RegionIds,
     lobbyType : LobbyTypeIds, gameMode : GameModeIds,
     parse_match_draft : BOOLEAN]

Batches ==
    UNION {{b \in [1..n -> UNION {RawMatches(i) : i \in 1..MaxBatch}] :
               \A i \in 1..n : b[i] \in RawMatches(i)} : n \in 0..MaxBatch}

InitMatches ==
    /\ LimiterUnused
    /\ TestUnused
    /\ ClientUnused
    /\ DraftUnused
    /\ EventsUnused
    /\ ReparseUnused
    /\ StoreUnused
    /\ batch \in Batches
    /\ norm = [NoNorm EXCEPT !.pc = "loop"]

NextMatches ==
    \/ MatchesLoop
    \/ MatchesReturn

SpecMatches == InitMatches /\ [][NextMatches]_vars

----------------------------------------------------------------------------
(* The draft entries of one match: parse._parse_draft_type,                *)
(* _parse_draft_is_random and _parse_draft_actor, applied by the draft     *)
(* spec to every raw action of parse_match_draft.pick_bans                 *)

\* a derivation that tests the player index for truth instead of for None
ParseDraftTypeFalsyIndex(pick_ban) ==
    IF pick_ban.isPick
    THEN "pick"
    ELSE LET ban_type == IF pick_ban.playerIndex = None \/ pick_ban.playerIndex = 0
                         THEN "system generated ban"
                         ELSE "ban"
         IN  IF ~pick_ban.wasBannedSuccessfully
             THEN ban_type \o " vote"
             ELSE ban_type

\* _parse_draft_type(pick_ban)
ParseDraftType(pick_ban) ==
    IF pick_ban.isPick
    THEN "pick"
    ELSE LET ban_type == IF pick_ban.playerIndex = None
                         THEN "system generated " \o "ban"
                         ELSE "ban"
         IN  IF ~pick_ban.wasBannedSuccessfully
             THEN ban_type \o " vote"
             ELSE ban_type

\* parse_match_players of the match: isRandom and steamAccountId by index
Players ==
    <<[isRandom |-> FALSE, steamAccountId |-> 101],
      [isRandom |-> TRUE, steamAccountId |-> 102]>>

\* _parse_draft_is_random(players, player_idx=...); list indices start at 0
ParseDraftIsRandom(players, player_idx) ==
    IF player_idx = None THEN FALSE ELSE players[player_idx + 1].isRandom

\* _parse_draft_actor(players, player_idx=...)
ParseDraftActor(players, player_idx) ==
    IF player_idx = None THEN None ELSE players[player_idx + 1].steamAccountId

\* the draft spec maps the next raw action to its entry
DraftEntry ==
    /\ Len(draft) < Len(pick_bans)
    /\ LET pick_ban == pick_bans[Len(draft) + 1]
       IN  draft' = Append(draft,
                      [draft_type  |-> ParseDraftType(pick_ban),
                       is_random   |-> ParseDraftIsRandom(Players, pick_ban.playerIndex),
                       by_steam_id |-> ParseDraftActor(Players, pick_ban.playerIndex)])
    /\ UNCHANGED pick_bans

----------------------------------------------------------------------------
(* SpecDraft: the draft of one match, any raw actions *)

PickBans ==
    [isPick : BOOLEAN, playerIndex : {None} \cup (0..(Len(Players) - 1)),
     wasBannedSuccessfully : BOOLEAN]

InitDraft ==
    /\ LimiterUnused
    /\ TestUnused
    /\ ClientUnused
    /\ MatchesUnused
    /\ EventsUnused
    /\ ReparseUnused
    /\ StoreUnused
    /\ pick_bans \in UNION {[1..n -> PickBans] : n \in 0..MaxDraft}
    /\ draft = <<>>

DraftNext == DraftEntry /\ UNCHANGED <<limiterVars, test, clientVars, matchesVars, eventsVars, reparseVars, storeVars>>

SpecDraft == InitDraft /\ [][DraftNext]_vars

----------------------------------------------------------------------------
(* parse.parse_events.  Every sub-stream is flattened over the players in  *)
(* the order of the payload and appended to r; the sub-streams that only   *)
(* rename fields are modelled by stats.killEvents, and                     *)
(* playbackData.csEvents is the one that classifies, sorts and numbers its *)
(* events before the final sort.                                           *)

\* classify_cs_target_event with the lower bound of the buildings included
ClassifyFromSixteen(npc_id) ==
    IF 16 <= npc_id /\ npc_id < 49 THEN "building destroy"
    ELSE IF npc_id = 110 THEN "observer deward"
    ELSE IF npc_id = 111 THEN "sentry deward"
    ELSE IF npc_id \in {112, 113} THEN "courier snipe"
    ELSE IF npc_id = 133 THEN "roshan death"
    ELSE "creep kill"

\* classify_cs_target_event(npc_id)
ClassifyCsTargetEvent(npc_id) ==
    IF 16 < npc_id /\ npc_id < 49 THEN "building destroy"
    ELSE IF npc_id = 110 THEN "observer deward"
    ELSE IF npc_id = 111 THEN "sentry deward"
    ELSE IF npc_id \in {112, 113} THEN "courier snipe"
    ELSE IF npc_id = 133 THEN "roshan death"
    ELSE "creep kill"

\* the event types of the model in the order Python compares their strings
EventTypeOrder ==
    <<"building destroy", "courier snipe", "creep kill", "hero kill",
      "observer deward", "roshan death", "sentry deward">>

TypeRank(event_type) ==
    CHOOSE i \in 1..Len(EventTypeOrder) : EventTypeOrder[i] = event_type

\* key=lambda d: (d['event_type'], d['time']), compared as tuples
KeyLess(a, b) ==
    \/ TypeRank(a.event_type) < TypeRank(b.event_type)
    \/ a.event_type = b.event_type /\ a.time < b.time

KeyEqual(a, b) == a.event_type = b.event_type /\ a.time = b.time

\* sorted(s, key=...): stable, events with equal keys keep their order
Sorted(s) ==
    LET pos(i) == Cardinality({j \in 1..Len(s) : KeyLess(s[j], s[i])})
                  + Cardinality({j \in 1..(i - 1) : KeyEqual(s[j], s[i])}) + 1
    IN  [k \in 1..Len(s) |-> s[CHOOSE i \in 1..Len(s) : pos(i) = k]]

\* a numbering that keeps the id an event already has: {'id': e[0], **e[1]}
EnumerateKeepId(s) ==
    [k \in 1..Len(s) |-> IF s[k].id = None THEN [s[k] EXCEPT !.id = k - 1] ELSE s[k]]

\* enumerate(s), then [lambda e: {**e[1], 'id': e[0]}]
Enumerate(s) == [k \in 1..Len(s) |-> [s[k] EXCEPT !.id = k - 1]]

\* Flatten(): the lists of the players one after the other
RECURSIVE Flatten(_)
Flatten(lists) ==
    IF lists = <<>> THEN <<>> ELSE Head(lists) \o Flatten(Tail(lists))

\* the Kill spec: stats.killEvents of every player, actor_id = heroId
KillEvents(m) ==
    Flatten([p \in 1..Len(m) |->
        [k \in 1..Len(m[p].killEvents) |->
            [event_type |-> "hero kill", time |-> m[p].killEvents[k].time,
             actor_id |-> m[p].heroId, target_id |-> m[p].killEvents[k].target,
             id |-> None]]])

\* the csEvents spec: classified by npcId, sorted and numbered on its own
CsEvents(m) ==
    Enumerate(Sorted(Flatten([p \in 1..Len(m) |->
        [k \in 1..Len(m[p].csEvents) |->
            [event_type |-> ClassifyCsTargetEvent(m[p].csEvents[k].npcId),
             time |-> m[p].csEvents[k].time,
             actor_id |-> m[p].csEvents[k].attacker,
             target_id |-> m[p].csEvents[k].npcId,
             id |-> None]]])))

\* a numbering of r as listed, without the sort
AssignIdsUnsorted(r) == Enumerate(r)

\* "Assign IDs all the way through each event type"
AssignIds(r) == Enumerate(Sorted(r))

\* parse_events(m) as one function
ParseEvents(m) == AssignIds(KillEvents(m) \o CsEvents(m))

\* r.extend(glom(m, spec)) for the Kill spec
EventsKills ==
    /\ ev.pc = "kills"
    /\ ev' = [pc |-> "cs", r |-> ev.r \o KillEvents(payload)]
    /\ UNCHANGED payload
    /\ UNCHANGED <<limiterVars, test, clientVars, matchesVars, draftVars, reparseVars, storeVars>>

\* r.extend(glom(m, spec)) for the csEvents spec
EventsCs ==
    /\ ev.pc = "cs"
    /\ ev' = [pc |-> "ids", r |-> ev.r \o CsEvents(payload)]
    /\ UNCHANGED payload
    /\ UNCHANGED <<limiterVars, test, clientVars, matchesVars, draftVars, reparseVars, storeVars>>

\* r = glom(r, spec); return r
EventsAssignIds ==
    /\ ev.pc = "ids"
    /\ ev' = [pc |-> "done", r |-> AssignIds(ev.r)]
    /\ UNCHANGED payload
    /\ UNCHANGED <<limiterVars, test, clientVars, matchesVars, draftVars, reparseVars, storeVars>>

----------------------------------------------------------------------------
(* SpecEvents: parse_events on any match of up to MaxPlayers players *)

\* the times of kills, and the one time of the csEvents, which tie on it
Times == {0, 1}

CsTimes == {1}

\* a building, sorting before the hero kills, and Roshan, sorting after them
NpcIds == {20, 133}

SeqsUpTo(S, n) == UNION {[1..k -> S] : k \in 0..n}

\* the raw sub-streams of the player with this heroId
RawPlayers(heroId) ==
    [heroId : {heroId},
     killEvents : SeqsUpTo([time : Times, target : {TargetHero}], MaxKills),
     csEvents : SeqsUpTo([time : CsTimes, npcId : NpcIds, attacker : {heroId}], MaxCs)]

Payloads ==
    UNION {{m \in [1..n -> UNION {RawPlayers(h) : h \in 1..MaxPlayers}] :
               \A p \in 1..n : m[p].heroId = p} : n \in 0..MaxPlayers}

InitEvents ==
    /\ LimiterUnused
    /\ TestUnused
    /\ ClientUnused
    /\ MatchesUnused
    /\ DraftUnused
    /\ ReparseUnused
    /\ StoreUnused
    /\ payload \in Payloads
    /\ ev = [pc |-> "kills", r |-> <<>>]

NextEvents ==
    \/ EventsKills
    \/ EventsCs
    \/ EventsAssignIds

SpecEvents == InitEvents /\ [][NextEvents]_vars

----------------------------------------------------------------------------
(* The staging table.  scripts/_data.py writes tombstones with             *)
(* upsert(StagingReparseMatch).values(rows) and deletes the rows of the    *)
(* matches that were collected in full.  A table is the set of its rows, a *)
(* row a function of the column names.                                     *)

MatchIds == 1..MaxMatchId

\* the key of StagingReparseMatch: tombstones are keyed by the match id
StagingPrimaryKey == {"match_id"}

\* IncompleteMatch(match_id=..., replay_salt=...).dict()
IncompleteRow(id) == [match_id |-> id, replay_salt |-> SaltBase + id]

\* pro_pubs: {'match_id': row['match_id'], 'replay_salt': 0}
ProPubRow(id) == [match_id |-> id, replay_salt |-> 0]

\* the rows of a table that are staged for a match
StagedFor(rows, id) == {r \in rows : r.match_id = id}

\* INSERT without ON CONFLICT on a table without the key
InsertOnly(table, constraint, values) == table \cup values

\* upsert(model, constraint=...).values(values), executed: INSERT ... ON
\* CONFLICT (constraint) DO UPDATE SET every other column = excluded
Upsert(table, constraint, values) ==
    LET Conflict(row, v) == \A c \in constraint : row[c] = v[c]
        Updated(row, v) == [c \in DOMAIN row |-> IF c \in constraint THEN row[c] ELSE v[c]]
    IN  {row \in table : \A v \in values : ~Conflict(row, v)}
        \cup {Updated(pr[1], pr[2]) : pr \in {x \in table \X values : Conflict(x[1], x[2])}}
        \cup {v \in values : \A row \in table : ~Conflict(row, v)}

\* stmt = upsert(StagingReparseMatch).values(values); await sess.execute(stmt)
Stage(values) ==
    stage' = [rows |-> Upsert(stage.rows, StagingPrimaryKey, values),
              last |-> [op |-> "upsert", values |-> values],
              twice |-> (stage.last.op = "upsert" /\ stage.last.values = values),
              n |-> stage.n + 1]

\* sa.delete(StagingReparseMatch).filter(match_id.in_(ids))
Unstage(ids) ==
    stage' = [rows |-> {r \in stage.rows : r.match_id \notin ids},
              last |-> [op |-> "delete", values |-> ids],
              twice |-> FALSE,
              n |-> stage.n + 1]

----------------------------------------------------------------------------
(* SpecStaging: any MaxStagings statements against the staging table. The *)
(* rows of one statement name different matches.                          *)

InitStaging ==
    /\ LimiterUnused
    /\ TestUnused
    /\ ClientUnused
    /\ MatchesUnused
    /\ DraftUnused
    /\ EventsUnused
    /\ StoreUnused
    /\ stage = NoStage
    /\ cache = {}
    /\ run = NoRun

StageIncomplete ==
    /\ stage.n < MaxStagings
    /\ \E ids \in (SUBSET MatchIds) \ {{}} : Stage({IncompleteRow(id) : id \in ids})
    /\ UNCHANGED <<limiterVars, test, clientVars, matchesVars, draftVars, eventsVars, cache, run, storeVars>>

StageProPubs ==
    /\ stage.n < MaxStagings
    /\ \E ids \in (SUBSET MatchIds) \ {{}} : Stage({ProPubRow(id) : id \in ids})
    /\ UNCHANGED <<limiterVars, test, clientVars, matchesVars, draftVars, eventsVars, cache, run, storeVars>>

DeleteStaged ==
    /\ stage.n < MaxStagings
    /\ \E ids \in (SUBSET MatchIds) \ {{}} : Unstage(ids)
    /\ UNCHANGED <<limiterVars, test, clientVars, matchesVars, draftVars, eventsVars, cache, run, storeVars>>

NextStaging ==
    \/ StageIncomplete
    \/ StageProPubs
    \/ DeleteStaged

SpecStaging == InitStaging /\ [][NextStaging]_vars

----------------------------------------------------------------------------
(* Stratz.reparse through the memoized Stratz.query, as the commands of    *)
(* scripts/_data.py call it: collect, reparse the incomplete matches, then *)
(* stage them.  FileCache keeps its map on disk, so it outlives a run.     *)

\* repr(Stratz): '<StratzClient {self.rate}r/s>', the same for every client
StratzRepr == "<StratzClient>"

\* the query text of Stratz.reparse
RetryQuery == "matchRetry(id: $replay_salt)"

\* FileCache.memoize: '_'.join(map(str, (*a, *kw.keys(), *kw.values())))
MemoKey(self, q, salt) == <<self, q, "replay_salt", salt>>

\* the incomplete matches of one run, in the order of their ids
IncompleteLists ==
    UNION {{s \in [1..k -> {IncompleteRow(id) : id \in MatchIds}] :
               \A a, b \in 1..k : a < b => s[a].match_id < s[b].match_id} : k \in 1..MaxMatchId}

\* r = await api.matches(...); incomplete = [_ for _ in r if isinstance(_, IncompleteMatch)]
RunCollect ==
    /\ run.pc = "idle"
    /\ run.n < MaxRuns
    /\ \E s \in IncompleteLists :
          run' = [run EXCEPT !.pc = "reparse", !.incomplete = s, !.i = 1, !.posted = <<>>]
    /\ UNCHANGED <<stage, cache>>
    /\ UNCHANGED <<limiterVars, test, clientVars, matchesVars, draftVars, eventsVars, storeVars>>

\* for salt in replay_salts: r = await self.query(q, replay_salt=salt)
\* wrapper: a key of the cache is answered from its file, any other key
\* calls query, which posts, and is then added to the cache
ReparseQuery ==
    /\ run.pc = "reparse"
    /\ run.i <= Len(run.incomplete)
    /\ LET salt == run.incomplete[run.i].replay_salt
           key == MemoKey(StratzRepr, RetryQuery, salt)
       IN  IF key \in cache
           THEN /\ run' = [run EXCEPT !.i = @ + 1]
                /\ UNCHANGED cache
           ELSE /\ run' = [run EXCEPT !.i = @ + 1, !.posted = Append(@, salt)]
                /\ cache' = cache \cup {key}
    /\ UNCHANGED stage
    /\ UNCHANGED <<limiterVars, test, clientVars, matchesVars, draftVars, eventsVars, storeVars>>

\* the loop of reparse is over
ReparseReturn ==
    /\ run.pc = "reparse"
    /\ run.i > Len(run.incomplete)
    /\ run' = [run EXCEPT !.pc = "stage"]
    /\ UNCHANGED <<stage, cache>>
    /\ UNCHANGED <<limiterVars, test, clientVars, matchesVars, draftVars, eventsVars, storeVars>>

\* stmt = upsert(StagingReparseMatch).values([v.dict() for v in incomplete])
RunStage ==
    /\ run.pc = "stage"
    /\ Stage(Range(run.incomplete))
    /\ run' = [run EXCEPT !.pc = "done"]
    /\ UNCHANGED cache
    /\ UNCHANGED <<limiterVars, test, clientVars, matchesVars, draftVars, eventsVars, storeVars>>

\* the command returns; the next run finds the cache map on disk
RunExit ==
    /\ run.pc = "done"
    /\ run' = [run EXCEPT !.pc = "idle", !.n = @ + 1]
    /\ UNCHANGED <<stage, cache>>
    /\ UNCHANGED <<limiterVars, test, clientVars, matchesVars, draftVars, eventsVars, storeVars>>

----------------------------------------------------------------------------
(* SpecReparse: MaxRuns runs of a command, one after the other *)

InitReparse ==
    /\ LimiterUnused
    /\ TestUnused
    /\ ClientUnused
    /\ MatchesUnused
    /\ DraftUnused
    /\ EventsUnused
    /\ StoreUnused
    /\ stage = NoStage
    /\ cache = {}
    /\ run = [NoRun EXCEPT !.pc = "idle"]

NextReparse ==
    \/ RunCollect
    \/ ReparseQuery
    \/ ReparseReturn
    \/ RunStage
    \/ RunExit

SpecReparse == InitReparse /\ [][NextReparse]_vars

----------------------------------------------------------------------------
(* The `missing` command of scripts/_data.py: it selects the staged match  *)
(* ids, fetches them, asks for a reparse of the incomplete ones and then,  *)
(* in one database session, writes the matches, deletes their tombstones   *)
(* and stages the incomplete ones.  api.matches is taken by its docstring: *)
(* every match of the response comes back as Match or IncompleteMatch, or  *)
(* the call raises.  A response is the set of the ids it holds in full.    *)

StagedLimit == 21       \* match_ids = match_ids[:21]
ChunkSize == 10         \* chunks(match_ids, n=10)

\* the query text of Stratz.matches
MatchesQuery == "matches(ids: $match_ids)"

\* FileCache.memoize for query(q, match_ids=ids)
MatchesKey(self, q, ids) == <<self, q, "match_ids", ids>>

\* the ids of a set as a list, in ascending order
IdList(S) ==
    CHOOSE s \in [1..Cardinality(S) -> S] :
        \A a, b \in 1..Cardinality(S) : a < b => s[a] < s[b]

\* s[:n]
Take(s, n) == [k \in 1..Min(n, Len(s)) |-> s[k]]

IdleRun ==
    [pc |-> "idle", match_ids |-> <<>>, matches |-> {}, incomplete |-> <<>>,
     i |-> 1, posted |-> <<>>, error |-> "none", tx |-> [store |-> {}, rows |-> {}],
     failures |-> 0]

missingFrame ==
    <<limiterVars, test, clientVars, matchesVars, draftVars, eventsVars, fcache, probe>>

\* a session that keeps what it executed although it raised
KeepWrites(db, tx) == tx

\* Database.session: except Exception: await sess.rollback(); raise
Rollback(db, tx) == db

\* stmt = sa.select(StagingReparseMatch.match_id); match_ids = match_ids[:21]
MissingSelect ==
    /\ run.pc = "idle"
    /\ run' = [run EXCEPT !.pc = "fetch",
                  !.match_ids = Take(IdList({r.match_id : r \in stage.rows}), StagedLimit)]
    /\ UNCHANGED <<stage, cache, store, provider, files, missingFrame>>

\* gathered = await asyncio.gather(api.matches(match_ids=chunk) ...): the
\* ids are one chunk; query is memoized, so a key of the cache is answered
\* from its file, and any other key by the provider and then kept
MissingFetch ==
    /\ run.pc = "fetch"
    /\ Len(run.match_ids) <= ChunkSize
    /\ LET ids == Range(run.match_ids)
           key == MatchesKey(StratzRepr, MatchesQuery, run.match_ids)
           asked == ids # {}
           hit == key \in cache
           resp == IF ~asked THEN {} ELSE IF hit THEN files[key] ELSE provider \cap ids
           left == IdList(ids \ resp)
       IN  /\ cache' = IF asked THEN cache \cup {key} ELSE cache
           /\ files' = IF asked /\ ~hit THEN (key :> resp) @@ files ELSE files
           /\ run' = [run EXCEPT !.pc = "reparse", !.matches = resp,
                         !.incomplete = [k \in 1..Len(left) |-> IncompleteRow(left[k])]]
    /\ UNCHANGED <<stage, store, provider, missingFrame>>

\* api.matches raises (the KeyError of its except branch)
MissingFetchRaises ==
    /\ run.pc = "fetch"
    /\ run.match_ids # <<>>
    /\ run.failures < MaxFailures
    /\ run' = [run EXCEPT !.pc = "raised", !.error = "matches", !.failures = @ + 1]
    /\ UNCHANGED <<stage, cache, store, provider, files, missingFrame>>

\* the requests of the run that carry this salt
PostsOf(salt) == {j \in 1..Len(run.posted) : run.posted[j] = salt}

\* await api.reparse(...): one query(q, replay_salt=salt).  A key of the
\* cache posts nothing.  Otherwise Stratz.request posts; on a status other
\* than OK it sleeps and posts again ("retry"), and it can raise.
MissingReparse(outcome) ==
    /\ run.pc = "reparse"
    /\ run.i <= Len(run.incomplete)
    /\ LET salt == run.incomplete[run.i].replay_salt
           key == MemoKey(StratzRepr, RetryQuery, salt)
       IN  CASE key \in cache ->
                   /\ outcome = "ok"
                   /\ run' = [run EXCEPT !.i = @ + 1]
                   /\ UNCHANGED cache
             [] key \notin cache /\ outcome = "ok" ->
                   /\ run' = [run EXCEPT !.i = @ + 1, !.posted = Append(@, salt)]
                   /\ cache' = cache \cup {key}
             [] key \notin cache /\ outcome = "retry" ->
                   /\ Cardinality(PostsOf(salt)) < MaxPosts - 1
                   /\ run' = [run EXCEPT !.posted = Append(@, salt)]
                   /\ UNCHANGED cache
             [] key \notin cache /\ outcome = "raise" ->
                   /\ run.failures < MaxFailures
                   /\ run' = [run EXCEPT !.pc = "raised", !.error = "reparse",
                                 !.failures = @ + 1]
                   /\ UNCHANGED cache
    /\ UNCHANGED <<stage, store, provider, files, missingFrame>>

\* reparse returns; async with db.session() as sess: the session works on
\* its own view of the tables until it commits
MissingReparseReturn ==
    /\ run.pc = "reparse"
    /\ run.i > Len(run.incomplete)
    /\ run' = [run EXCEPT !.pc = "write", !.tx = [store |-> store, rows |-> stage.rows]]
    /\ UNCHANGED <<stage, cache, store, provider, files, missingFrame>>

\* the three statements of the session: write_matches, the delete of the
\* tombstones of `matches`, the upsert of `incomplete`
SessionStatement ==
    /\ run.pc \in {"write", "delete", "upsert"}
    /\ run' = CASE run.pc = "write" ->
                     [run EXCEPT !.pc = "delete", !.tx.store = @ \cup run.matches]
                [] run.pc = "delete" ->
                     [run EXCEPT !.pc = "upsert",
                         !.tx.rows = {r \in @ : r.match_id \notin run.matches}]
                [] run.pc = "upsert" ->
                     [run EXCEPT !.pc = "commit",
                         !.tx.rows = Upsert(@, StagingPrimaryKey, Range(run.incomplete))]
    /\ UNCHANGED <<stage, cache, store, provider, files, missingFrame>>

\* yield sess returns; await sess.commit()
SessionCommit ==
    /\ run.pc = "commit"
    /\ store' = run.tx.store
    /\ stage' = [stage EXCEPT !.rows = run.tx.rows]
    /\ run' = [run EXCEPT !.pc = "done"]
    /\ UNCHANGED <<cache, provider, files, missingFrame>>

\* a statement or the commit raises: rollback, and the command raises
SessionFails ==
    /\ run.pc \in {"write", "delete", "upsert", "commit"}
    /\ run.failures < MaxFailures
    /\ LET db == Rollback([store |-> store, rows |-> stage.rows], run.tx)
       IN  /\ store' = db.store
           /\ stage' = [stage EXCEPT !.rows = db.rows]
    /\ run' = [run EXCEPT !.pc = "raised", !.error = "session", !.failures = @ + 1]
    /\ UNCHANGED <<cache, provider, files, missingFrame>>

\* the process ends; the tables and the cache directory stay
MissingExit ==
    /\ run.pc \in {"done", "raised"}
    /\ run' = [IdleRun EXCEPT !.failures = run.failures]
    /\ UNCHANGED <<stage, cache, store, provider, files, missingFrame>>

\* the provider has parsed the replay of a match and serves it in full
ProviderCompletes ==
    /\ \E id \in MatchIds \ provider : provider' = provider \cup {id}
    /\ UNCHANGED <<stage, cache, run, store, files, missingFrame>>

----------------------------------------------------------------------------
(* SpecMissing: runs of `missing`, one after the other, on any staged set *)

InitMissing ==
    /\ LimiterUnused
    /\ TestUnused
    /\ ClientUnused
    /\ MatchesUnused
    /\ DraftUnused
    /\ EventsUnused
    /\ \E ids \in SUBSET MatchIds :
          stage = [NoStage EXCEPT !.rows = {IncompleteRow(id) : id \in ids}]
    /\ cache = {}
    /\ run = IdleRun
    /\ store = {}
    /\ provider = {}
    /\ files = <<>>
    /\ fcache = NoFileCache
    /\ probe = NoProbe

NextMissing ==
    \/ MissingSelect
    \/ MissingFetch
    \/ MissingFetchRaises
    \/ \E outcome \in {"ok", "retry", "raise"} : MissingReparse(outcome)
    \/ MissingReparseReturn
    \/ SessionStatement
    \/ SessionCommit
    \/ SessionFails
    \/ MissingExit
    \/ ProviderCompletes

SpecMissing == InitMissing /\ [][NextMissing]_vars

\* the command is run again and again and every step of a run is taken in
\* the end; at most MaxFailures calls or sessions raise
FairMissing ==
    /\ SpecMissing
    /\ WF_vars(MissingSelect)
    /\ WF_vars(MissingFetch)
    /\ WF_vars(MissingReparse("ok"))
    /\ WF_vars(MissingReparseReturn)
    /\ WF_vars(SessionStatement)
    /\ WF_vars(SessionCommit)
    /\ WF_vars(MissingExit)

----------------------------------------------------------------------------
(* Claims about AsyncRateLimiter *)

\* the grants inside a window shorter than one refill interval (1 / rate)
RecentGrants == {i \in 1..Len(grants) : grants[i] < Timeout(limiter)}

\* AsyncRateLimiter alone keeps every window shorter than one refill
\* interval to at most `burst` grants (see C2 for the clients)
LimiterBurstHolds == Cardinality(RecentGrants) <= limiter.burst

\* C1: the number of grants inside any sliding window of `seconds` is at
\* most `tokens` (the capacity), for any callers and any spacing in time
C1_WindowAtMostCapacity == Len(grants) <= limiter.max_tokens

\* C5: every call to acquire() eventually returns: a task that waits in
\* acquire() is eventually granted its token, whoever else is calling
C5_AcquireReturns == \A t \in Tasks : (pc[t] = "waiting") ~> (pc[t] = "acquired")

\* C3: when the test loop ends (seconds + 0.01 s after its start), the
\* limiter AsyncRateLimiter(tokens=N, seconds=N, burst=1) was entered
\* exactly N times: assert r == limiter._max_tokens
C3_TestCountsMaxTokens == test.pc = "done" => test.r = limiter.max_tokens

\* what the loop counts instead: the burst token, then one entry per second
\* up to and including the first one later than seconds + 0.01 s
TestCountsTwoMore == test.pc = "done" => test.r = limiter.max_tokens + 2

----------------------------------------------------------------------------
(* Claims about the clients *)

\* C2: the number of grants inside any window shorter than one refill
\* interval is at most burst, also for concurrent tasks of one client; the
\* windows of one instant are among them, and Stratz.burst is 150 / 60
C2_BurstPerWindow == admitted * BurstDivisor <= BurstRequests

\* C4: 0 <= available <= capacity in every state of a client's budget
C4_AvailableWithinCapacity ==
    client.cls # "none" =>
        /\ 0 <= client.tokens
        /\ client.tokens <= client.max_tokens * Unit(client)

\* C6: after a response that carries the remaining-quota header, available
\* is the minimum of its value before and the reported remaining budget
C6_ReconcileToMinimum ==
    [][\A t \in Tasks, r \in Responses :
          (ClientRespond(t, r) /\ r.remaining # None /\ call'[t].error = "none")
              => client'.tokens = Min(client.tokens, r.remaining * Unit(client))]_vars

\* C7: a response without the remaining-quota header raises no error
\* because of that, and goes on to the success / retry handling
C7_NoErrorWithoutHeader ==
    \A t \in DOMAIN call : call[t].error # "KeyError: x-ratelimit-remaining-hour"

\* C8: a client constructed with an elevated credential has the elevated
\* capacity once its first request is admitted
C8_ElevatedCapacity ==
    (client.authorization /\ sent > 0) => client.max_tokens = ElevatedTokens

\* C9: every request sent, retries included, took its own token: the
\* requests sent never outnumber the tokens taken
C9_SentAtMostTaken == sent <= taken

\* C10: after a 429, the wait before the retry is exactly the retry-after
\* header's number of seconds, for every value of the header, 0 included
C10_WaitsRetryAfter ==
    \A t \in DOMAIN call :
        (call[t].pc = "sleeping" /\ call[t].retry_after # None)
            => call[t].slept = call[t].retry_after * TicksPerSecond

\* C11: in Stratz.request, backoff_ is 0 when a call starts and grows by exactly 1 with every
\* error response (the call goes from in flight to sleeping); after an error
\* status other than 429 (no retry-after is read) the wait before the retry is burst * backoff_, longer than the wait of any earlier retry of
\* that kind
C11_LinearBackoff ==
    [][\A t \in Tasks :
          /\ (call[t].pc \in {"idle", "returned"} /\ call'[t].pc # call[t].pc)
                => call'[t].backoff_ = 0
          /\ (call[t].pc = "inflight" /\ call'[t].pc = "sleeping")
                => /\ call'[t].backoff_ = call[t].backoff_ + 1
                   /\ call'[t].retry_after = None
                         => /\ call'[t].slept = Burst * call'[t].backoff_
                            /\ \A k \in 1..call[t].backoff_ :
                                   call'[t].slept > Burst * k]_vars

\* a call waits before its second retry, after two server errors in a row
C11_SecondBackoff ==
    \E t \in Tasks :
        /\ call[t].pc = "sleeping"
        /\ call[t].backoff_ = 2
        /\ call[t].retry_after = None
        /\ call[t].slept = 2 * Burst

\* Stratz.request returns only a response with a success status, however
\* many errors came before it
ReturnsOnlySuccess ==
    \A t \in DOMAIN call :
        (client.cls = "Stratz" /\ call[t].pc = "returned") => call[t].status = OK

\* C12: Stratz.request stops retrying only on a successful response: a
\* response it returns has a success status, and a request in flight whose
\* upstream stops answering with error statuses is eventually returned
C12_StopsOnlyOnSuccess ==
    /\ []ReturnsOnlySuccess
    /\ \A t \in Tasks :
          (client.cls = "Stratz" /\ call[t].pc = "inflight")
              ~> (call[t].pc = "returned" /\ call[t].status = OK)

----------------------------------------------------------------------------
(* Claims about normalization *)

\* C13: a match of a batch whose player-draft section is missing yields
\* exactly one IncompleteMatch{match_id, replay_salt} and no Match, every
\* other match still yields its Match, and the list returned holds exactly
\* one entry per match of the response; the call does not raise
C13_IncompletePerMatch ==
    /\ norm.pc # "raised"
    /\ norm.pc = "returned" =>
          /\ Len(norm.matches) = Len(batch)
          /\ \A i \in 1..Len(batch) :
                /\ norm.matches[i].match_id = batch[i].id
                /\ ~batch[i].parse_match_draft =>
                      /\ norm.matches[i].type = "IncompleteMatch"
                      /\ norm.matches[i].replay_salt = batch[i].replaySalt

\* a match that carries a code absent from its lookup table
UnknownCode(match) ==
    \/ match.regionId \notin Regions
    \/ match.lobbyType \notin DOMAIN LobbyTypes
    \/ match.gameMode \notin GameModes

\* C14: lobby-type code 7 becomes the label "Ranked"; a match with a code
\* absent from its table fails alone: the call does not raise at that match,
\* and every match whose codes are known is in the list returned
C14_UnknownCodeFailsAlone ==
    /\ LobbyIdToName(7) = "Ranked"
    /\ \A i \in 1..Len(batch) :
          UnknownCode(batch[i]) => ~(norm.pc = "raised" /\ norm.i = i)
    /\ norm.pc = "returned" =>
          \A i \in 1..Len(batch) :
              ~UnknownCode(batch[i]) =>
                  \E j \in 1..Len(norm.matches) : norm.matches[j].match_id = batch[i].id

DraftTypes == {"ban vote", "system generated ban", "ban", "pick"}

\* C16: whatever the combination of isPick, playerIndex and
\* wasBannedSuccessfully, the derived draft type is one of the four values
\* pick, ban, ban vote, system generated ban
C16_FourDraftTypes == \A i \in 1..Len(draft) : draft[i].draft_type \in DraftTypes

----------------------------------------------------------------------------
(* Claims about parse_events *)

\* C17: the ids of a match's n events are exactly 0..n-1, none used twice,
\* and an event whose (event_type, time) is smaller than another's has the
\* smaller id, across all sub-streams
C17_SequenceIds ==
    ev.pc = "done" =>
        /\ {ev.r[k].id : k \in 1..Len(ev.r)} = 0..(Len(ev.r) - 1)
        /\ \A a, b \in 1..Len(ev.r) :
              /\ (a # b => ev.r[a].id # ev.r[b].id)
              /\ (KeyLess(ev.r[a], ev.r[b]) => ev.r[a].id < ev.r[b].id)

\* a match was numbered whose events come from both sub-streams: a Roshan
\* death, numbered 0 among the csEvents, sorts after a hero kill
C17_BothStreamsNumbered ==
    /\ ev.pc = "done"
    /\ \E a, b \in 1..Len(ev.r) :
          /\ ev.r[a].event_type = "roshan death"
          /\ ev.r[b].event_type = "hero kill"
          /\ ev.r[a].id > ev.r[b].id
          /\ CsEvents(payload)[1].event_type = "roshan death"

\* the orders a list can be given in
PermsOf(s) ==
    {[i \in 1..Len(s) |-> s[f[i]]] :
        f \in {g \in [1..Len(s) -> 1..Len(s)] :
                  \A a, b \in 1..Len(s) : a # b => g[a] # g[b]}}

\* the same player with the records of each sub-stream in any order
PlayerReorderings(player) ==
    {[player EXCEPT !.killEvents = k, !.csEvents = c] :
        k \in PermsOf(player.killEvents), c \in PermsOf(player.csEvents)}

\* the raw payloads that hold the events of m, listed in any order of the
\* players and of the records inside a sub-stream
Reorderings(m) ==
    UNION {{q \in [1..Len(m) -> UNION {PlayerReorderings(m[p]) : p \in 1..Len(m)}] :
               \A p \in 1..Len(m) : q[p] \in PlayerReorderings(o[p])} : o \in PermsOf(m)}

\* the events of a numbered list, each with its id
EventSet(r) == {r[k] : k \in 1..Len(r)}

\* C18: two raw payloads that hold the same events, in any order of players
\* or of records inside a sub-stream, give every event the same id
C18_OrderIndependent ==
    ev.pc = "done" =>
        \A q \in Reorderings(payload) : EventSet(ParseEvents(q)) = EventSet(ev.r)

\* the ids given to the events that have the key of event e
IdsOfKey(r, e) == {r[k].id : k \in {n \in 1..Len(r) : KeyEqual(r[n], e)}}

\* C18 as amended: an event whose (event_type, time) no other event of the
\* match shares gets the same id from every such payload, and the events
\* that share a key get the same ids between them
C18_OrderIndependentUpToTies ==
    ev.pc = "done" =>
        \A q \in Reorderings(payload) :
            LET r == ParseEvents(q)
            IN  \A k \in 1..Len(ev.r) : IdsOfKey(r, ev.r[k]) = IdsOfKey(ev.r, ev.r[k])

\* two players killed at the same time and a third event has a key of its
\* own, listed by the second player
C18_TieAndUniqueKey ==
    /\ ev.pc = "done"
    /\ Len(payload) = 2
    /\ \E a, b, c \in 1..Len(ev.r) :
          /\ a # b
          /\ KeyEqual(ev.r[a], ev.r[b])
          /\ ev.r[a].actor_id # ev.r[b].actor_id
          /\ ev.r[c].actor_id = 2
          /\ Cardinality(IdsOfKey(ev.r, ev.r[c])) = 1
          /\ ev.r[c].id > 0

----------------------------------------------------------------------------
(* Claims about staging and reparse *)

\* C19: the staging table holds at most one tombstone per match id; a
\* statement that stages tombstones leaves exactly one row, the staged one,
\* for each of its match ids and the rows of the other match ids as they
\* were, so staging the same tombstones twice in succession changes nothing
C19_StagingIdempotent ==
    /\ [](\A id \in MatchIds : Cardinality(StagedFor(stage.rows, id)) <= 1)
    /\ [][(stage'.n = stage.n + 1 /\ stage'.last.op = "upsert") =>
             LET values == stage'.last.values
                 ids == {v.match_id : v \in values}
             IN  /\ \A v \in values : StagedFor(stage'.rows, v.match_id) = {v}
                 /\ \A id \in MatchIds \ ids :
                       StagedFor(stage'.rows, id) = StagedFor(stage.rows, id)
                 /\ stage'.twice => stage'.rows = stage.rows]_vars

\* the same tombstones were staged twice in succession, over a tombstone
\* with another salt, while another match is staged too
C19_StagedTwice ==
    /\ stage.twice
    /\ stage.n = MaxStagings
    /\ \E v \in stage.last.values : v.replay_salt # 0
    /\ \E r \in stage.rows : \A v \in stage.last.values : r.match_id # v.match_id

\* C20: when a run is over, for every incomplete match of the run one
\* request with its replay salt was posted in that run and its tombstone is
\* staged, also when the salt was asked for in an earlier run
C20_EveryIncompleteAsked ==
    run.pc = "done" =>
        \A k \in 1..Len(run.incomplete) :
            /\ Cardinality({j \in 1..Len(run.posted) :
                               run.posted[j] = run.incomplete[k].replay_salt}) = 1
            /\ run.incomplete[k] \in stage.rows

----------------------------------------------------------------------------
(* write_matches of scripts/_data.py: the dimension rows of a batch are    *)
(* passed through unique() and every list of rows is handed to upsert.     *)

probeFrame ==
    <<limiterVars, test, clientVars, matchesVars, draftVars, eventsVars, reparseVars,
      store, provider, files, fcache>>

\* the primary key of MatchPlayer
PlayerKey == {"match_id", "hero_id"}

\* rows of match_player: one match, its heroes, a slot each
PlayerRows == [match_id : {1}, hero_id : 1..MaxHeroes, slot : {0, 1}]

\* the sets of rows that hold every key once: a table, or a batch of rows
Keyed(rows, key) ==
    {t \in SUBSET rows : \A a, b \in t : (\A c \in key : a[c] = b[c]) => a = b}

\* stmt = upsert(MatchPlayer).values(chunk); await sess.execute(stmt), for a
\* batch that is delivered a second time
WriteBatch ==
    /\ probe.pc \in {"first", "second"}
    /\ probe' = IF probe.pc = "first"
                THEN [probe EXCEPT !.pc = "second",
                         !.once = Upsert(probe.table, PlayerKey, probe.values)]
                ELSE [probe EXCEPT !.pc = "done",
                         !.twice = Upsert(probe.once, PlayerKey, probe.values)]
    /\ UNCHANGED probeFrame

\* SpecUpsert: any batch of match_player rows written twice to any table
InitUpsert ==
    /\ LimiterUnused
    /\ TestUnused
    /\ ClientUnused
    /\ MatchesUnused
    /\ DraftUnused
    /\ EventsUnused
    /\ ReparseUnused
    /\ store = {}
    /\ provider = {}
    /\ files = <<>>
    /\ fcache = NoFileCache
    /\ \E t \in Keyed(PlayerRows, PlayerKey), v \in Keyed(PlayerRows, PlayerKey) \ {{}} :
          probe = [pc |-> "first", table |-> t, values |-> v, once |-> {}, twice |-> {}]

SpecUpsert == InitUpsert /\ [][WriteBatch]_vars

\* rows of account: the same account can carry two names
AccountRows == [steam_id : {1, 2}, steam_name : {"old", "new"}]

\* unique(duplicated): the set of the rows as tuples of their items
Unique(duplicated) == {duplicated[k] : k \in 1..Len(duplicated)}

\* a = unique([a for m in matches for a in m['accounts']])
WriteUnique ==
    /\ probe.pc = "unique"
    /\ probe' = [probe EXCEPT !.pc = "done", !.a = Unique(probe.accounts)]
    /\ UNCHANGED probeFrame

\* SpecUnique: the accounts of any batch of matches, deduplicated
InitUnique ==
    /\ LimiterUnused
    /\ TestUnused
    /\ ClientUnused
    /\ MatchesUnused
    /\ DraftUnused
    /\ EventsUnused
    /\ ReparseUnused
    /\ store = {}
    /\ provider = {}
    /\ files = <<>>
    /\ fcache = NoFileCache
    /\ \E accounts \in SeqsUpTo(AccountRows, MaxAccounts) :
          probe = [pc |-> "unique", accounts |-> accounts, a |-> {}]

SpecUnique == InitUnique /\ [][WriteUnique]_vars

----------------------------------------------------------------------------
(* The three callers of Stratz.matches: Stratz.tournament_matches and the  *)
(* commands `missing` and `match`.                                         *)

\* util.chunks(iterable, n): the items in runs of n, the last run the shorter one
chunks(s, n) ==
    [k \in 1..CeilDiv(Len(s), n) |->
        [j \in 1..Min(n, Len(s) - (k - 1) * n) |-> s[(k - 1) * n + j]]]

\* the lists of ids that the chosen path hands to Stratz.matches
FetchCollect ==
    /\ probe.pc = "collect"
    /\ probe' = [probe EXCEPT
                    !.pc = "fetch",
                    !.todo = CASE probe.path = "tournament" -> chunks(probe.match_ids, ChunkSize)
                               [] probe.path = "missing" ->
                                      chunks(Take(probe.match_ids, StagedLimit), ChunkSize)
                               [] probe.path = "match" -> <<probe.match_ids>>]
    /\ UNCHANGED probeFrame

\* r = await api.matches(match_ids=...): one match-detail query
FetchQuery ==
    /\ probe.pc = "fetch"
    /\ probe' = IF probe.todo = <<>>
                THEN [probe EXCEPT !.pc = "done"]
                ELSE [probe EXCEPT !.todo = Tail(probe.todo),
                                   !.sent = Append(probe.sent, Head(probe.todo))]
    /\ UNCHANGED probeFrame

\* SpecFetch: each path with every number of ids; `match` exits on an empty list
InitFetch ==
    /\ LimiterUnused
    /\ TestUnused
    /\ ClientUnused
    /\ MatchesUnused
    /\ DraftUnused
    /\ EventsUnused
    /\ ReparseUnused
    /\ store = {}
    /\ provider = {}
    /\ files = <<>>
    /\ fcache = NoFileCache
    /\ \E path \in {"tournament", "missing", "match"}, n \in 0..MaxIds :
          /\ path = "match" => n > 0
          /\ probe = [pc |-> "collect", path |-> path, match_ids |-> [k \in 1..n |-> k],
                      todo |-> <<>>, sent |-> <<>>]

SpecFetch == InitFetch /\ [][FetchCollect \/ FetchQuery]_vars

----------------------------------------------------------------------------
(* parse_events: the event type of one csEvents record, by its npcId, and  *)
(* of one rune record, by its action text.  Texts are sequences of         *)
(* characters.                                                             *)

\* the action texts of rune records: the provider's two names, and spellings
\* of them in other cases
RuneActions ==
    {<<"B", "O", "T", "T", "L", "E">>, <<"P", "I", "C", "K", "U", "P">>,
     <<"b", "o", "t", "t", "l", "e">>, <<"B", "o", "t", "t", "l", "e">>,
     <<"p", "i", "c", "k", "u", "p">>, <<"P", "i", "c", "k", "u", "p">>,
     <<"B", "O", "T", "T", "L", "E", "D">>, <<"U", "P">>, <<>>}

\* lambda x: 'rune bottle' if 'BOTTLE' in x.lower() else 'rune activate'
RuneEventType(x) ==
    LET upper == <<"B", "C", "D", "E", "I", "K", "L", "O", "P", "T", "U">>
        lower == <<"b", "c", "d", "e", "i", "k", "l", "o", "p", "t", "u">>
        LowerChar(c) == IF \E k \in 1..Len(upper) : upper[k] = c
                        THEN lower[CHOOSE k \in 1..Len(upper) : upper[k] = c]
                        ELSE c
        Lower(t) == [k \in 1..Len(t) |-> LowerChar(t[k])]
        In(sub, t) == \E k \in 0..(Len(t) - Len(sub)) :
                         \A j \in 1..Len(sub) : t[k + j] = sub[j]
    IN  IF In(<<"B", "O", "T", "T", "L", "E">>, Lower(x))
        THEN "rune bottle"
        ELSE "rune activate"

\* 'event_type': Invoke(...) of the csEvents spec and of the runes spec
ClassifyRecord ==
    /\ probe.pc = "raw"
    /\ probe' = [probe EXCEPT
                    !.pc = "event",
                    !.event_type = IF probe.stream = "csEvents"
                                   THEN ClassifyCsTargetEvent(probe.npcId)
                                   ELSE RuneEventType(probe.action)]
    /\ UNCHANGED probeFrame

\* SpecClassify: one record of either stream, with any npc id or action text
InitClassify ==
    /\ LimiterUnused
    /\ TestUnused
    /\ ClientUnused
    /\ MatchesUnused
    /\ DraftUnused
    /\ EventsUnused
    /\ ReparseUnused
    /\ store = {}
    /\ provider = {}
    /\ files = <<>>
    /\ fcache = NoFileCache
    /\ \/ \E npcId \in (0 - MaxNpcId)..MaxNpcId :
             probe = [pc |-> "raw", stream |-> "csEvents", npcId |-> npcId,
                      action |-> <<>>, event_type |-> ""]
       \/ \E action \in RuneActions :
             probe = [pc |-> "raw", stream |-> "runes", npcId |-> None,
                      action |-> action, event_type |-> ""]

SpecClassify == InitClassify /\ [][ClassifyRecord]_vars

----------------------------------------------------------------------------
(* FileCache of util.py.  fcache._cache maps a key to the number n of its  *)
(* file n.json, and fcache.wrote maps n to the key whose response the file *)
(* holds.  Keys are numbered in the order they are first asked for.  The   *)
(* cache map on disk is rewritten with every entry, so it equals _cache    *)
(* whenever a process starts.                                              *)

cacheFrame ==
    <<limiterVars, test, clientVars, matchesVars, draftVars, eventsVars, reparseVars,
      store, provider, files>>

\* int(fp.split('.json')[0][-1]): the last character of the decimal stem
LastDigit(n) == n % 10

\* memoize, up to `r = await f(*a, **kw)`: a key that has no entry is asked
\* by a task, which then waits for the response
MemoizeMiss ==
    /\ probe.asked < MaxKeys
    /\ Cardinality(probe.pending) < NumTasks
    /\ probe' = [probe EXCEPT !.asked = @ + 1, !.pending = @ \cup {probe.asked + 1}]
    /\ UNCHANGED <<fcache, cacheFrame>>

\* memoize, after the await: the next number, the entry, the file, the map
MemoizeStore ==
    /\ \E key \in probe.pending :
          LET n == fcache._latest_n + 1
          IN  /\ fcache' = [_latest_n |-> n,
                            _cache    |-> (key :> n) @@ fcache._cache,
                            wrote     |-> (n :> key) @@ fcache.wrote]
              /\ probe' = [probe EXCEPT !.pending = @ \ {key}]
    /\ UNCHANGED cacheFrame

\* a new process: __init__ and _load_cache; the tasks of the old one are gone
LoadCache ==
    /\ fcache' = [fcache EXCEPT !._latest_n =
                     IF DOMAIN fcache._cache = {}
                     THEN 0
                     ELSE LET digits == {LastDigit(fcache._cache[k]) : k \in DOMAIN fcache._cache}
                          IN  CHOOSE d \in digits : \A e \in digits : e <= d]
    /\ probe' = [probe EXCEPT !.pending = {}, !.loads = TRUE]
    /\ UNCHANGED cacheFrame

InitFileCache ==
    /\ LimiterUnused
    /\ TestUnused
    /\ ClientUnused
    /\ MatchesUnused
    /\ DraftUnused
    /\ EventsUnused
    /\ ReparseUnused
    /\ store = {}
    /\ provider = {}
    /\ files = <<>>
    /\ fcache = NoFileCache
    /\ probe = [pc |-> "cache", asked |-> 0, pending |-> {}, loads |-> FALSE]

SpecFileCache == InitFileCache /\ [][MemoizeMiss \/ MemoizeStore \/ LoadCache]_vars

----------------------------------------------------------------------------
(* Claims about the `missing` command *)

\* C21: a reprocess request is posted at most once per incomplete match of
\* the run, failed or not, and a run whose reprocess request failed still
\* has its matches in the match table and its tombstones staged
C21_ReparseFireAndForget ==
    /\ \A k \in 1..Len(run.incomplete) :
          Cardinality(PostsOf(run.incomplete[k].replay_salt)) <= 1
    /\ (run.pc = "raised" /\ run.error = "reparse") =>
          /\ run.matches \subseteq store
          /\ Range(run.incomplete) \subseteq stage.rows

C29_StagedIsStoredInTheEnd ==
    \A id \in MatchIds :
        (id \in provider /\ StagedFor(stage.rows, id) # {})
            ~> (id \in store /\ StagedFor(stage.rows, id) = {})

----------------------------------------------------------------------------
(* Claims about write_matches *)

\* the rows of a table that have the key of row v
RowsOfKey(table, key, v) == {r \in table : \A c \in key : r[c] = v[c]}

\* C23: a batch handed to the upsert twice leaves the table as handing it
\* once does: for every key of the batch exactly one row, the row of the
\* batch, and the rows of the other keys as they were
C23_UpsertTwiceIsOnce ==
    probe.pc = "done" =>
        /\ probe.twice = probe.once
        /\ \A v \in probe.values : RowsOfKey(probe.twice, PlayerKey, v) = {v}
        /\ \A r \in probe.table :
              RowsOfKey(probe.values, PlayerKey, r) = {}
                 => RowsOfKey(probe.twice, PlayerKey, r) = {r}

\* a batch was written twice that replaced a row of the table with other
\* values, added a row, and left a row of another key alone
C23_ReplacedAddedKept ==
    /\ probe.pc = "done"
    /\ \E v \in probe.values : RowsOfKey(probe.table, PlayerKey, v) \notin {{}, {v}}
    /\ \E v \in probe.values : RowsOfKey(probe.table, PlayerKey, v) = {}
    /\ \E r \in probe.table : RowsOfKey(probe.values, PlayerKey, r) = {}

\* C24: after deduplication no two rows handed to one upsert have the same
\* id, also when two matches carry the same account with another name
C24_UniqueIds ==
    probe.pc = "done" =>
        \A x, y \in probe.a : x.steam_id = y.steam_id => x = y

\* C25: on every path that fetches match details, each query carries at
\* most the chunk size of ten match ids
C25_QueriesWithinChunkSize ==
    \A k \in 1..Len(probe.sent) : Len(probe.sent[k]) <= ChunkSize

----------------------------------------------------------------------------
(* Claims about the classification of records *)

\* the npc ids that each event type of csEvents stands for
TargetIds ==
    [t \in {"building destroy", "observer deward", "sentry deward",
            "courier snipe", "roshan death"} |->
        CASE t = "building destroy" -> 17..48
          [] t = "observer deward" -> {110}
          [] t = "sentry deward" -> {111}
          [] t = "courier snipe" -> {112, 113}
          [] t = "roshan death" -> {133}]

\* C26: every npc id gets exactly one event type: the type whose ids hold
\* it, and 'creep kill' when none does, as at the boundaries 16 and 49
C26_ClassificationByRange ==
    (probe.pc = "event" /\ probe.stream = "csEvents") =>
        /\ \A t \in DOMAIN TargetIds :
              probe.event_type = t <=> probe.npcId \in TargetIds[t]
        /\ probe.event_type = "creep kill"
              <=> probe.npcId \notin UNION {TargetIds[t] : t \in DOMAIN TargetIds}

\* a record at the boundary below the buildings was classified
C26_SixteenIsCreep ==
    /\ probe.pc = "event"
    /\ probe.stream = "csEvents"
    /\ probe.npcId = 16
    /\ probe.event_type = "creep kill"

\* C27: a rune record whose action text contains BOTTLE becomes a 'rune
\* bottle' event, every other rune record a 'rune activate' event
C27_BottleIsRuneBottle ==
    (probe.pc = "event" /\ probe.stream = "runes") =>
        LET bottle == <<"B", "O", "T", "T", "L", "E">>
            named == \E k \in 0..(Len(probe.action) - 6) :
                        \A j \in 1..6 : probe.action[k + j] = bottle[j]
        IN  probe.event_type = IF named THEN "rune bottle" ELSE "rune activate"

----------------------------------------------------------------------------
(* Claims about the books of the bucket *)

\* C28: with the acquire passes of all tasks interleaved, the grants so far
\* never exceed the initial tokens plus the refill of the time elapsed since
\* the first acquire, and the bucket never holds less than nothing
C28_NoTokenTwice ==
    /\ probe.credit >= 0
    /\ limiter.tokens >= 0
    /\ limiter.tokens <= probe.credit

\* a grant took the last of the credit while another task was waiting, after
\* the bucket had been refilled
C28_LastTokenContended ==
    /\ probe.granted
    /\ probe.credit = 0
    /\ \E t \in Tasks : pc[t] = "waiting"
    /\ limiter.last_checked = 0
    /\ Len(grants) > limiter.burst

----------------------------------------------------------------------------
(* Claims about the file cache *)

\* C30: two different cache keys never map to the same file, and the file
\* of an entry holds the response of its key, also with concurrent misses
\* and after the cache map was loaded by a new process
C30_OneFilePerKey ==
    /\ \A a, b \in DOMAIN fcache._cache :
          a # b => fcache._cache[a] # fcache._cache[b]
    /\ \A a \in DOMAIN fcache._cache : fcache.wrote[fcache._cache[a]] = a

====
